---- MODULE Spec2Model ----
(***************************************************************************)
(* A model of src/audio-video.ts.  The file holds two WebSocket brokers:   *)
(*                                                                         *)
(*   - the call-signaling broker (lines 1-306): registry onlineUsers       *)
(*     (identity -> {socket, path}), role index onlineCouriers, the        *)
(*     heartbeat interval, the authentication gate and the relay of        *)
(*     callUser / answerCall / iceCandidate / disconnectCall;              *)
(*   - the chat broker (lines 308-628): onlineUsers (a set), userSockets,  *)
(*     userLocations, locationSubscribers, the presence broadcast and the  *)
(*     store-backed chat events.                                           *)
(*                                                                         *)
(* Both declare `onlineUsers'; the chat broker's set is chatOnlineUsers    *)
(* here.  Each specification runs the events of one part of a broker.     *)
(***************************************************************************)
EXTENDS Integers, Sequences, FiniteSets, Bags, TLC

VARIABLES
    ws,              \* call broker: connection -> ExtendedWebSocket fields
    onlineUsers,     \* call broker: Map<string, {socket, path}>
    onlineCouriers,  \* call broker: Map<string, ExtendedWebSocket>
    chatWs,          \* chat broker: connection -> ExtendedWebSocket fields
    chatOnlineUsers, \* chat broker: onlineUsers, a Set<string>
    userSockets,     \* chat broker: Map<string, ExtendedWebSocket>
    userLocations,   \* chat broker: Map<string, {lat, lng}>
    locationSubscribers, \* chat broker: identity -> Set<ExtendedWebSocket>
    tasks,           \* chat broker: the bag of handlers suspended at an await
    rooms,           \* the store: prisma.room
    chats,           \* the store: prisma.chat
    sent,            \* the ws.send() and ws.ping() calls of the last handler, in order
    last             \* the event the last step served

callVars == <<ws, onlineUsers, onlineCouriers>>

chatVars == <<chatWs, chatOnlineUsers, userSockets, userLocations,
              locationSubscribers, tasks>>

storeVars == <<rooms, chats>>

(***************************************************************************)
(* Bounds and input sets.                                                  *)
(***************************************************************************)
MaxConns == 2

\* Message handlers suspended at an await at one time.
MaxTasks == 2

\* Records a table of the store holds.
MaxChats == 2

\* Connections of the specifications that read the store.
MaxReaders == 1

Conns == 1..MaxConns

Readers == 1..MaxReaders

Users == {"u1", "u2"}

\* The role the token of each identity carries.
RoleOf(u) == IF u = "u1" THEN "Client" ELSE "Host"

\* req.url of a connection: the chat path and the driver-location path.
Paths == {"/chat", "/driver-location"}

NoUser == ""

(***************************************************************************)
(* JavaScript Map, as the set of its entries [key, ...].  get returns the  *)
(* entries under a key (none or one), set replaces, delete never throws.   *)
(***************************************************************************)
MapHas(m, k) == \E e \in m : e.key = k

MapGet(m, k) == {e \in m : e.key = k}

MapSet(m, k, e) == {x \in m : x.key # k} \cup {e}

MapDelete(m, k) == {x \in m : x.key # k}

UserEntry(id, c, p) == [key |-> id, socket |-> c, path |-> p]

CourierEntry(id, c) == [key |-> id, socket |-> c]

(***************************************************************************)
(* Inbound frames and outbound envelopes.                                  *)
(***************************************************************************)
\* parsedData.token: absent, or a string that verifyToken rejects (by a
\* throw, or by returning no payload), or one it resolves to {id, role}.
NoToken == [present |-> FALSE, valid |-> FALSE, throws |-> FALSE,
            id |-> NoUser, role |-> ""]

Tokens ==
    {NoToken}
    \cup {[present |-> TRUE, valid |-> FALSE, throws |-> b, id |-> NoUser,
            role |-> ""] : b \in BOOLEAN}
    \cup {[present |-> TRUE, valid |-> TRUE, throws |-> FALSE, id |-> u,
            role |-> RoleOf(u)] : u \in Users}

CallEvents == {"callUser", "answerCall", "iceCandidate", "disconnectCall", "other"}

\* payload is the offer, answer or candidate of the frame; fromUserId is a
\* field of that name a client may add to its frame.
Frame(ok, ev, tok, to, ct) ==
    [parses |-> ok, event |-> ev, token |-> tok, toUserId |-> to, callType |-> ct,
     payload |-> "", fromUserId |-> NoUser]

WithData(f, payload, from) == [f EXCEPT !.payload = payload, !.fromUserId = from]

AuthFrames == {Frame(TRUE, "authenticate", t, NoUser, "") : t \in Tokens}

\* Those with a token verifyToken accepts.
ValidAuthFrames == {f \in AuthFrames : f.token.valid}

\* The frames a client can send to the call broker.
CallFrames ==
    {Frame(FALSE, "", NoToken, NoUser, "")}
    \cup AuthFrames
    \cup {WithData(Frame(TRUE, "callUser", NoToken, u, ct), "sdp", NoUser) :
            u \in Users, ct \in {"audio", "screen", ""}}
    \cup {WithData(Frame(TRUE, e, NoToken, u, ""), "sdp", NoUser) :
            e \in CallEvents \ {"callUser"}, u \in Users}

\* The relayed events with a fromUserId of the client's choosing.
SpoofedFrames ==
    {WithData(Frame(TRUE, e, NoToken, u, IF e = "callUser" THEN "audio" ELSE ""),
              "sdp", from) :
       e \in CallEvents \ {"other"}, u \in Users, from \in Users}

Envelope(to, ev, msg, uid, role, ct) ==
    [to |-> to, event |-> ev, message |-> msg, userId |-> uid, role |-> role,
     callType |-> ct, payload |-> ""]

ErrorEnvelope(to, msg) == Envelope(to, "error", msg, NoUser, "", "")

Last(op, c, ev) == [op |-> op, conn |-> c, event |-> ev]

\* The message event of the call broker that served frame f.
Served(c, f) ==
    [op |-> "message", conn |-> c, event |-> f.event, fromUserId |-> f.fromUserId]

(***************************************************************************)
(* The call-signaling broker (src/audio-video.ts 1-306).                   *)
(***************************************************************************)
\* A slot no connection has used yet.
Unused == [readyState |-> "NONE", terminated |-> FALSE, isAlive |-> FALSE,
           userId |-> NoUser, userRole |-> "", path |-> "",
           closeFrameReceived |-> FALSE]

\* A socket whose 'close' event has been emitted.  No handler reads its
\* fields again (wss.clients drops it, every registry lookup tests
\* readyState first), so only its readyState is kept.
Closed(w) == [Unused EXCEPT !.readyState = "CLOSED"]

\* wss.clients: a socket stays in it until its 'close' event is emitted.
Clients == {c \in Conns : ws[c].readyState \in {"OPEN", "CLOSING"}}

\* A frame can arrive while the socket is open, and after the server's own
\* close() until the client's close frame has come; never after
\* terminate().
Receiving(c) == c \in Clients /\ ~ws[c].terminated /\ ~ws[c].closeFrameReceived

\* WebSocket.close(): starts the closing handshake of an open socket.
SocketClose(w, c) ==
    IF w[c].readyState = "OPEN" THEN [w EXCEPT ![c].readyState = "CLOSING"] ELSE w

\* WebSocket.terminate(): destroys the socket; 'close' is emitted later.
SocketTerminate(w, c) ==
    IF w[c].readyState = "CLOSED" THEN w
    ELSE [w EXCEPT ![c].readyState = "CLOSING", ![c].terminated = TRUE]

\* jwtHelpers.verifyToken: the payload, or a throw, or no payload.
VerifyToken(t) == [throws |-> t.throws, user |-> t.valid, id |-> t.id,
                   role |-> t.role]

\* The registry cleanup the close handler and the eviction share:
\* delete the socket's identity from the registry and, for a Client, from
\* the role index.
CleanupUsers(users, w) ==
    IF w.userId # NoUser THEN MapDelete(users, w.userId) ELSE users

CleanupCouriers(couriers, w) ==
    IF w.userId # NoUser /\ w.userRole = "Client"
    THEN MapDelete(couriers, w.userId) ELSE couriers

\* wss.on("connection"): a new socket on path p.
Connect(c, p) ==
    /\ ws[c].readyState = "NONE"
    /\ \A d \in Conns : d < c => ws[d].readyState # "NONE"
    /\ ws' = [ws EXCEPT ![c] = [readyState |-> "OPEN", terminated |-> FALSE,
                                isAlive |-> TRUE, userId |-> NoUser,
                                userRole |-> "", path |-> p,
                                closeFrameReceived |-> FALSE]]
    /\ sent' = <<Envelope(c, "info", "Connected to server. Please authenticate.",
                          NoUser, "", "")>>
    /\ last' = Last("connection", c, "")
    /\ UNCHANGED <<onlineUsers, onlineCouriers, chatVars, storeVars>>

\* ws.on("pong"): heartbeat(ws).
Pong(c) ==
    /\ Receiving(c)
    /\ ws' = [ws EXCEPT ![c].isAlive = TRUE]
    /\ sent' = <<>>
    /\ last' = Last("pong", c, "")
    /\ UNCHANGED <<onlineUsers, onlineCouriers, chatVars, storeVars>>

\* A monitor that waits for no answer.
Unanswered_All == {c \in Conns : ws[c].readyState \in {"OPEN", "CLOSING"}}

\* The sockets one run of the interval callback finds unanswered.
Unanswered == {c \in Clients : ws[c].isAlive = FALSE}

RECURSIVE EvictAll(_, _, _)
EvictAll(dead, users, couriers) ==
    IF dead = {} THEN <<users, couriers>>
    ELSE LET c == CHOOSE x \in dead : TRUE
         IN EvictAll(dead \ {c}, CleanupUsers(users, ws[c]),
                     CleanupCouriers(couriers, ws[c]))

\* Line 55: ws.ping() on each of the sockets S, in the order of wss.clients
\* (the order the connections were accepted in).
RECURSIVE Probes(_)
Probes(S) ==
    IF S = {} THEN <<>>
    ELSE LET c == CHOOSE x \in S : \A y \in S : x <= y
         IN <<Envelope(c, "ping", "", NoUser, "", "")>> \o Probes(S \ {c})

\* The setInterval callback: every client that did not answer the previous
\* probe is evicted and terminated, every other one is marked and pinged.
Tick ==
    /\ Clients # {}
    /\ LET dead == Unanswered
           regs == EvictAll(dead, onlineUsers, onlineCouriers)
       IN /\ onlineUsers' = regs[1]
          /\ onlineCouriers' = regs[2]
          /\ ws' = [c \in Conns |->
                      IF c \in dead THEN SocketTerminate(ws, c)[c]
                      ELSE IF c \in Clients THEN [ws[c] EXCEPT !.isAlive = FALSE]
                      ELSE ws[c]]
    /\ sent' = Probes(Clients \ Unanswered)
    /\ last' = Last("tick", 0, "")
    /\ UNCHANGED <<chatVars, storeVars>>

\* The client starts the closing handshake, or answers the server's: its
\* close frame arrives and the socket is CLOSING until the connection has
\* ended.  No handler of lines 60-169 runs: the socket stays in wss.clients
\* and in the registries, its frames have ended, and the readyState tests
\* of lines 204, 236, 259 and 281 pass it over.
PeerClosing(c) ==
    /\ Receiving(c)
    /\ ws' = [ws EXCEPT ![c].readyState = "CLOSING",
                        ![c].closeFrameReceived = TRUE]
    /\ sent' = <<>>
    /\ last' = Last("closing", c, "")
    /\ UNCHANGED <<onlineUsers, onlineCouriers, chatVars, storeVars>>

\* ws.on("close"): the connection has ended, after a closing handshake
\* (the socket was CLOSING) or by a drop (it was OPEN until this event).
\* The event recorded is "evicted" when the monitor has already run the
\* cleanup for the identity of this socket.
Close(c) ==
    /\ c \in Clients
    /\ ws' = [ws EXCEPT ![c] = Closed(ws[c])]
    /\ onlineUsers' = CleanupUsers(onlineUsers, ws[c])
    /\ onlineCouriers' = CleanupCouriers(onlineCouriers, ws[c])
    /\ sent' = <<>>
    /\ last' = Last("close", c, IF ws[c].terminated /\ ws[c].userId # NoUser
                                 THEN "evicted" ELSE "")
    /\ UNCHANGED <<chatVars, storeVars>>

\* Lines 111-112: the registry already holds this identity on this path.
ShouldEvict(users, id, path) == \E e \in MapGet(users, id) : e.path = path

\* Lines 113-117: close the registered socket and drop its entries.
EvictExisting(w, users, id) ==
    LET e == CHOOSE x \in MapGet(users, id) : TRUE
    IN SocketClose(w, e.socket)

\* Lines 103-134: authenticate with a token verifyToken accepts.
Register(c, id, role) ==
    LET evict == ShouldEvict(onlineUsers, id, ws[c].path)
        w1 == IF evict THEN EvictExisting(ws, onlineUsers, id) ELSE ws
        users1 == IF evict THEN MapDelete(onlineUsers, id) ELSE onlineUsers
        couriers1 == IF evict /\ role = "Client"
                     THEN MapDelete(onlineCouriers, id) ELSE onlineCouriers
    IN /\ ws' = [w1 EXCEPT ![c].userId = id, ![c].userRole = role]
       /\ onlineUsers' = MapSet(users1, id, UserEntry(id, c, ws[c].path))
       /\ onlineCouriers' = IF role = "Client"
                            THEN MapSet(couriers1, id, CourierEntry(id, c))
                            ELSE couriers1
       /\ sent' = <<Envelope(c, "authenticated", "", id, role, "")>>

\* Lines 91-144: the authenticate event.  A verifyToken that throws, and
\* one that returns no payload (the destructuring of line 109 then throws),
\* both end in the catch of line 135.
Authenticate(c, f) ==
    IF ~f.token.present
    THEN /\ sent' = <<ErrorEnvelope(c, "Token is required for authentication")>>
         /\ UNCHANGED callVars
    ELSE IF VerifyToken(f.token).throws \/ ~VerifyToken(f.token).user
    THEN /\ sent' = <<ErrorEnvelope(c, "Invalid token")>>
         /\ UNCHANGED callVars
    ELSE Register(c, VerifyToken(f.token).id, VerifyToken(f.token).role)

\* The registered socket of an identity when it is open, else none.
OpenSocketOf(id) ==
    {e.socket : e \in {x \in MapGet(onlineUsers, id) :
                         ws[x.socket].readyState = "OPEN"}}

\* A role check that lets every role through.
MayInitiate_Any(role) == TRUE

\* Lines 182-190: only a Client may initiate a call.
MayInitiate(role) == role = "Client"

\* Lines 192: callType must be audio or video.
ValidCallType(ct) == ct \in {"audio", "video"}

\* A receiver test without the role.
HostSocketOf_AnyRole(id) == OpenSocketOf(id)

\* Lines 202-206: the receiver is registered, open and a Host.
HostSocketOf(id) == {s \in OpenSocketOf(id) : ws[s].userRole = "Host"}

\* Lines 177-228: callUser.
CallUser(c, f) ==
    IF ~MayInitiate(ws[c].userRole)
    THEN <<ErrorEnvelope(c, "Only Client can initiate a call.")>>
    ELSE IF ~ValidCallType(f.callType)
    THEN <<ErrorEnvelope(c, "Invalid or missing callType. Must be 'audio' or 'video'.")>>
    ELSE IF HostSocketOf(f.toUserId) # {}
    THEN <<[Envelope(CHOOSE s \in HostSocketOf(f.toUserId) : TRUE, "incomingCall",
                     "", ws[c].userId, "", f.callType) EXCEPT !.payload = f.payload]>>
    ELSE <<ErrorEnvelope(c, "Host not available or invalid recipient.")>>

\* A relay that names the originator the frame claims, when it claims one.
Relay_AsClaimed(c, f, ev, msg) ==
    IF OpenSocketOf(f.toUserId) # {}
    THEN <<[Envelope(CHOOSE s \in OpenSocketOf(f.toUserId) : TRUE, ev, msg,
                     IF f.fromUserId # NoUser THEN f.fromUserId ELSE ws[c].userId,
                     "", "")
              EXCEPT !.payload = IF ev = "callDisconnected" THEN "" ELSE f.payload]>>
    ELSE <<>>

\* Lines 230-296: answerCall, iceCandidate and disconnectCall relay ev to
\* the registered open socket of toUserId, and only log otherwise.  The
\* answer and the candidate are passed on as they came.
Relay(c, f, ev, msg) ==
    IF OpenSocketOf(f.toUserId) # {}
    THEN <<[Envelope(CHOOSE s \in OpenSocketOf(f.toUserId) : TRUE, ev, msg,
                     ws[c].userId, "", "")
              EXCEPT !.payload = IF ev = "callDisconnected" THEN "" ELSE f.payload]>>
    ELSE <<>>

\* Lines 175-306: handleParcelChatMessage, as the sends it makes.
handleParcelChatMessage(c, f) ==
    CASE f.event = "callUser" -> CallUser(c, f)
      [] f.event = "answerCall" -> Relay(c, f, "callAnswered", "")
      [] f.event = "iceCandidate" -> Relay(c, f, "iceCandidate", "")
      [] f.event = "disconnectCall" ->
            Relay(c, f, "callDisconnected", "Call has been disconnected.")
      [] OTHER -> <<ErrorEnvelope(c, "Unknown event type")>>

\* Lines 146-150: the driver-location path only logs.
Route(c, f) ==
    IF ws[c].path = "/driver-location" THEN <<>> ELSE handleParcelChatMessage(c, f)

\* A catch that only logs.
OnParseError_Silent(c) == <<>>

\* Lines 151-158: the catch of the message handler.
OnParseError(c) == <<ErrorEnvelope(c, "Invalid message format")>>

\* A gate that lets every event through.
Gated_Off(c, f) == FALSE

\* Line 81: the authentication gate.
Gated(c, f) == ws[c].userId = NoUser /\ f.event # "authenticate"

\* Lines 76-159: ws.on("message").
Message(c, f) ==
    /\ Receiving(c)
    /\ last' = Served(c, f)
    /\ UNCHANGED <<chatVars, storeVars>>
    /\ IF ~f.parses
       THEN /\ sent' = OnParseError(c)
            /\ UNCHANGED callVars
       ELSE IF Gated(c, f)
       THEN /\ sent' = <<ErrorEnvelope(c, "Please authenticate first")>>
            /\ UNCHANGED callVars
       ELSE IF f.event = "authenticate"
       THEN Authenticate(c, f)
       ELSE /\ sent' = Route(c, f)
            /\ UNCHANGED callVars

(***************************************************************************)
(* The chat broker (src/audio-video.ts 308-628).                           *)
(***************************************************************************)
\* userId is a field of that name a client may add to its frame.
ChatFrame(ok, ev, tok, peer, lat, lng, msg) ==
    [parses |-> ok, event |-> ev, token |-> tok, peer |-> peer,
     lat |-> lat, lng |-> lng, message |-> msg, userId |-> NoUser]

ChatAuthFrames ==
    {ChatFrame(TRUE, "authenticate", t, NoUser, "", "", "") : t \in Tokens}

ValidChatAuthFrames == {f \in ChatAuthFrames : f.token.valid}

\* authenticate without a token: the broker closes the socket.
NoTokenFrames == {f \in ChatAuthFrames : ~f.token.present}

\* An unparsable text and an event the switch does not know.
JunkFrames ==
    {ChatFrame(FALSE, "", NoToken, NoUser, "", "", ""),
     ChatFrame(TRUE, "other", NoToken, NoUser, "", "", "")}

\* locationUpdate{lat,lng} and subscribeToLocation{targetUserId}, with
\* fields present and missing.  lat and lng are as they arrive in the JSON
\* text; "" is null or undefined.
LocationFrames ==
    {ChatFrame(TRUE, "locationUpdate", NoToken, NoUser, "10", "20", ""),
     ChatFrame(TRUE, "locationUpdate", NoToken, NoUser, "", "20", ""),
     ChatFrame(TRUE, "locationUpdate", NoToken, NoUser, "10", "", "")}
    \cup {ChatFrame(TRUE, "subscribeToLocation", NoToken, u, "", "", "") :
            u \in {"u2", NoUser}}

\* Two locationUpdate frames with different positions, and the
\* subscription that receives them.
OrderFrames ==
    {ChatFrame(TRUE, "locationUpdate", NoToken, NoUser, "10", "20", ""),
     ChatFrame(TRUE, "locationUpdate", NoToken, NoUser, "30", "40", ""),
     ChatFrame(TRUE, "subscribeToLocation", NoToken, "u2", "", "", "")}

\* A locationUpdate with a userId of the client's choosing.
SpoofedLocationFrames ==
    {[ChatFrame(TRUE, "locationUpdate", NoToken, NoUser, "10", "20", "")
        EXCEPT !.userId = u] : u \in Users}

\* message{receiverId,message}, with message present and missing.
MessageFrames ==
    {ChatFrame(TRUE, "message", NoToken, u, "", "", "hi") : u \in Users}
    \cup {ChatFrame(TRUE, "message", NoToken, "u2", "", "", "")}

\* unReadMessages{receiverId} and messageList, and the messages to the
\* same receiver.
InboxFrames ==
    {ChatFrame(TRUE, "unReadMessages", NoToken, u, "", "", "") : u \in {"u2", NoUser}}
    \cup {ChatFrame(TRUE, "messageList", NoToken, NoUser, "", "", ""),
          ChatFrame(TRUE, "message", NoToken, "u2", "", "", "hi")}

\* fetchChats{receiverId} and the messages to the same receiver.
FetchFrames ==
    {ChatFrame(TRUE, "fetchChats", NoToken, u, "", "", "") : u \in {"u2", NoUser}}
    \cup {ChatFrame(TRUE, "message", NoToken, "u2", "", "", "hi")}

\* One well-formed frame of every event but authenticate.
EventFrames ==
    {ChatFrame(TRUE, "locationUpdate", NoToken, NoUser, "10", "20", ""),
     ChatFrame(TRUE, "subscribeToLocation", NoToken, "u2", "", "", ""),
     ChatFrame(TRUE, "message", NoToken, "u2", "", "", "hi"),
     ChatFrame(TRUE, "fetchChats", NoToken, "u2", "", "", ""),
     ChatFrame(TRUE, "unReadMessages", NoToken, "u2", "", "", ""),
     ChatFrame(TRUE, "messageList", NoToken, NoUser, "", "", "")}

ChatEnvelope(to, ev, uid, online, lat, lng, chat, list) ==
    [to |-> to, event |-> ev, userId |-> uid, isOnline |-> online,
     lat |-> lat, lng |-> lng, chat |-> chat, list |-> list]

\* A slot of the chat broker no connection has used yet.  prior is the
\* identity of the socket that had the slot before the one it holds;
\* accepted is the place of the socket in the iteration order of
\* wss.clients, 0 for a socket that is not in it.
ChatUnused ==
    [readyState |-> "NONE", userId |-> NoUser, prior |-> NoUser, accepted |-> 0,
     closeFrameReceived |-> FALSE]

\* wss.clients of the chat broker.
ChatClients == {c \in Conns : chatWs[c].readyState \in {"OPEN", "CLOSING"}}

\* A frame can arrive while the socket is open, and after the server's own
\* close() until the client's close frame has come.
ChatReceiving(c) == c \in ChatClients /\ ~chatWs[c].closeFrameReceived

\* A JS Set is kept as the sequence of its elements in insertion order,
\* the order forEach visits them in.
SetOf(s) == {s[i] : i \in 1..Len(s)}

SetAdd(s, x) == IF x \in SetOf(s) THEN s ELSE Append(s, x)

SetDelete(s, x) == SelectSeq(s, LAMBDA y : y # x)

\* wss.clients of the sockets w in the order the sockets were accepted.
WssClients(w) ==
    LET live == {c \in Conns : w[c].readyState \in {"OPEN", "CLOSING"}}
    IN [i \in 1..Cardinality(live) |-> CHOOSE c \in live : w[c].accepted = i]

\* The server drops the socket c from wss.clients as it closes.
Dropped(w, c) ==
    [d \in Conns |->
       IF d = c THEN [w[d] EXCEPT !.readyState = "CLOSED", !.accepted = 0,
                                  !.closeFrameReceived = FALSE]
       ELSE IF w[d].accepted > w[c].accepted
            THEN [w[d] EXCEPT !.accepted = @ - 1]
            ELSE w[d]]

\* A broadcast without the readyState test: every socket of wss.clients.
BroadcastTargets_Clients(w) ==
    {c \in Conns : w[c].readyState \in {"OPEN", "CLOSING"}}

\* Lines 622-628: broadcastToAll, the sends it makes over the sockets w.
BroadcastTargets(w) == {c \in Conns : w[c].readyState = "OPEN"}

broadcastToAll(w, uid, online) ==
    LET order == SelectSeq(WssClients(w), LAMBDA c : c \in BroadcastTargets(w))
    IN [i \in 1..Len(order) |->
          ChatEnvelope(order[i], "userStatus", uid, online, "", "", 0, {})]

\* wss.on("connection") of the chat broker.
ChatConnect(c) ==
    /\ chatWs[c].readyState = "NONE"
    /\ \A d \in Conns : d < c => chatWs[d].readyState # "NONE"
    /\ chatWs' = [chatWs EXCEPT ![c] = [readyState |-> "OPEN", userId |-> NoUser,
                                        prior |-> NoUser,
                                        accepted |-> Cardinality(ChatClients) + 1,
                                        closeFrameReceived |-> FALSE]]
    /\ sent' = <<>>
    /\ last' = Last("connection", c, "")
    /\ UNCHANGED <<chatOnlineUsers, userSockets, userLocations,
                   locationSubscribers, tasks, rooms, chats, callVars>>

\* Lines 356-360: bind the identity and enter it in the registry.
ChatRegister(users, id, c) == MapSet(users, id, CourierEntry(id, c))

\* Lines 346-369: authenticate.  A throw of verifyToken ends the handler in
\* the catch of line 591, which only logs.
ChatAuthenticate(c, f) ==
    IF ~f.token.present
    THEN /\ chatWs' = SocketClose(chatWs, c)
         /\ sent' = <<>>
         /\ UNCHANGED <<chatOnlineUsers, userSockets>>
    ELSE IF VerifyToken(f.token).throws
    THEN /\ sent' = <<>>
         /\ UNCHANGED <<chatWs, chatOnlineUsers, userSockets>>
    ELSE IF ~VerifyToken(f.token).user
    THEN /\ chatWs' = SocketClose(chatWs, c)
         /\ sent' = <<>>
         /\ UNCHANGED <<chatOnlineUsers, userSockets>>
    ELSE LET id == VerifyToken(f.token).id
             w1 == [chatWs EXCEPT ![c].userId = id]
         IN /\ chatWs' = w1
            /\ chatOnlineUsers' = chatOnlineUsers \cup {id}
            /\ userSockets' = ChatRegister(userSockets, id, c)
            /\ sent' = broadcastToAll(w1, id, TRUE)

\* locationSubscribers.get(id).  The map is read only to iterate the Set
\* it holds, so a missing entry and an empty Set are the same value here.
SubscribersOf(subs, id) == IF id \in DOMAIN subs THEN subs[id] ELSE <<>>

\* Lines 416-419: add the socket to the Set of the target.
Subscribe(subs, c, target) == [subs EXCEPT ![target] = SetAdd(subs[target], c)]

\* A handler suspended at an await, with the arguments of the store call it
\* waits for: uid is ws.userId as the call read it.
\* hit is what room.findFirst returned ("" before it has, then "none" or
\* "room"); nrooms and nchats count the records the handler has created.
Task(kind, c, pc, uid, peer, lat, lng, room, list, nrooms, nchats) ==
    [kind |-> kind, conn |-> c, pc |-> pc, uid |-> uid, peer |-> peer,
     lat |-> lat, lng |-> lng, room |-> room, list |-> list, hit |-> "",
     nrooms |-> nrooms, nchats |-> nchats]

\* The handlers suspended in a message event.
Pending(kind) == {t \in BagToSet(tasks) : t.kind = kind}

RECURSIVE Copies(_)
Copies(S) ==
    IF S = {} THEN 0
    ELSE LET t == CHOOSE x \in S : TRUE
         IN CopiesIn(t, tasks) + Copies(S \ {t})

\* prisma.user.update made as a call that returns the row: the handler
\* stays on the thread until the store has answered.
Awaited_ExceptUpdate(t) == t.pc # "update"

\* The store calls the handlers make with await, by the place of the
\* handler: lines 381 (user.update), 437, 479, 513 (room.findFirst), 447
\* (room.create), 452 (chat.create), 493, 527 (chat.findMany), 498
\* (chat.updateMany), 544 (room.findMany), 560 (user.findMany).  At an
\* awaited call the async handler of line 337 returns to the event loop.
Awaited(t) ==
    t.pc \in {"update", "findRoom", "createRoom", "createChat", "findMany",
              "updateMany", "findRooms", "findUsers"}

\* The handlers that are inside a store call and have not returned to the
\* event loop.  The broker runs on one thread: while there is one, no
\* event of any connection is served and no other handler resumes.
Holding == {t \in BagToSet(tasks) : ~Awaited(t)}

\* The events of connection c wait for the thread.
Blocked(c) == Holding # {}

\* Lines 376, 414, 432, 477, 511, 542: the guard that makes a case return
\* before it does anything.
Ignored(c, f) ==
    LET anon == chatWs[c].userId = NoUser
    IN CASE f.event = "locationUpdate" -> anon \/ f.lat = "" \/ f.lng = ""
         [] f.event = "subscribeToLocation" -> anon \/ f.peer = NoUser
         [] f.event = "message" -> anon \/ f.peer = NoUser \/ f.message = ""
         [] f.event \in {"fetchChats", "unReadMessages"} -> anon \/ f.peer = NoUser
         [] f.event = "messageList" -> anon
         [] OTHER -> TRUE

\* Lines 337-341, 374-378, 412-424, 430-444, 475-486, 509-520, 541-554,
\* 588-593: ws.on("message") up to its first await.
ChatMessage(c, f) ==
    /\ ChatReceiving(c)
    /\ ~Blocked(c)
    /\ last' = Last("message", c, f.event)
    /\ UNCHANGED <<callVars, rooms, chats>>
    /\ IF ~f.parses
       THEN /\ sent' = <<>>
            /\ UNCHANGED chatVars
       ELSE IF f.event = "authenticate"
       THEN /\ ChatAuthenticate(c, f)
            /\ UNCHANGED <<userLocations, locationSubscribers, tasks>>
       ELSE IF Ignored(c, f)
       THEN /\ sent' = <<>>
            /\ UNCHANGED chatVars
       ELSE /\ sent' = <<>>
            /\ f.event \in {"locationUpdate", "subscribeToLocation", "message",
                            "fetchChats", "unReadMessages", "messageList"}
            /\ IF f.event = "subscribeToLocation"
               THEN /\ locationSubscribers' = Subscribe(locationSubscribers, c, f.peer)
                    /\ UNCHANGED <<chatWs, chatOnlineUsers, userSockets,
                                   userLocations, tasks>>
               ELSE /\ userLocations' =
                         IF f.event = "locationUpdate"
                         THEN [userLocations EXCEPT ![chatWs[c].userId] =
                                 [lat |-> f.lat, lng |-> f.lng]]
                         ELSE userLocations
                    /\ tasks' = tasks (+) SetToBag({
                         Task(f.event, c,
                              CASE f.event = "locationUpdate" -> "update"
                                [] f.event = "messageList" -> "findRooms"
                                [] OTHER -> "findRoom",
                              chatWs[c].userId, f.peer, f.lat, f.lng, 0, {}, 0, 0)})
                    /\ UNCHANGED <<chatWs, chatOnlineUsers, userSockets,
                                   locationSubscribers>>

\* The handler t moves on to task u, or ends when u is none.  It resumes
\* when the thread is free, or its own.
Continue(t, u) ==
    /\ Holding \subseteq {t}
    /\ tasks' = (tasks (-) SetToBag({t})) (+) SetToBag(u)

Done(t, outcome) == [op |-> "done", conn |-> t.conn, event |-> outcome, task |-> t]

\* Lines 391-403: the fan-out to the open subscribers of the sender.
FanOutTargets(subs, w, id) ==
    {s \in SetOf(SubscribersOf(subs, id)) : w[s].readyState = "OPEN"}

FanOut(t) ==
    LET id == chatWs[t.conn].userId
        open == FanOutTargets(locationSubscribers, chatWs, id)
        order == SelectSeq(SubscribersOf(locationSubscribers, id),
                           LAMBDA s : s \in open)
    IN [i \in 1..Len(order) |->
          ChatEnvelope(order[i], "locationUpdate", id, FALSE, t.lat, t.lng, 0, {})]

\* Lines 386-388: the catch of the store call logs, and the handler goes on
\* to the fan-out.
OnStoreError(t) == FanOut(t)

\* Lines 380-405: prisma.user.update returns or throws (the throw is only
\* logged), and the handler fans the update out.  No handler reads the
\* stored row, so the store's copy is not kept.
LocationResume(t, stored) ==
    /\ BagIn(t, tasks)
    /\ t.kind = "locationUpdate"
    /\ sent' = IF stored THEN FanOut(t) ELSE OnStoreError(t)
    /\ Continue(t, {})
    /\ last' = Done(t, IF stored THEN "stored" ELSE "store failed")
    /\ UNCHANGED <<chatWs, chatOnlineUsers, userSockets, userLocations,
                   locationSubscribers, rooms, chats, callVars>>

\* Lines 611-613: drop the socket from every subscriber set.
Unsubscribe(subs, c) == [t \in DOMAIN subs |-> SetDelete(subs[t], c)]

\* The client starts the closing handshake, or answers the server's: its
\* close frame arrives and the socket is CLOSING until the connection has
\* ended.  No handler of lines 337-616 runs: the socket stays in
\* wss.clients, in userSockets and in the subscriber Sets, its frames have
\* ended, and the readyState tests of lines 394, 464 and 624 pass it over.
ChatPeerClosing(c) ==
    /\ ChatReceiving(c)
    /\ ~Blocked(c)
    /\ chatWs' = [chatWs EXCEPT ![c].readyState = "CLOSING",
                                ![c].closeFrameReceived = TRUE]
    /\ sent' = <<>>
    /\ last' = Last("closing", c, "")
    /\ UNCHANGED <<chatOnlineUsers, userSockets, userLocations,
                   locationSubscribers, tasks, rooms, chats, callVars>>

\* Lines 599-616: ws.on("close"): the connection has ended, after a
\* closing handshake (the socket was CLOSING) or by a drop (it was OPEN
\* until this event).
ChatClose(c) ==
    /\ c \in ChatClients
    /\ ~Blocked(c)
    /\ LET w1 == Dropped(chatWs, c)
           id == chatWs[c].userId
       IN /\ chatWs' = w1
          /\ IF id # NoUser
             THEN /\ chatOnlineUsers' = chatOnlineUsers \ {id}
                  /\ userSockets' = MapDelete(userSockets, id)
                  /\ sent' = broadcastToAll(w1, id, FALSE)
                  /\ locationSubscribers' = Unsubscribe(locationSubscribers, c)
             ELSE /\ sent' = <<>>
                  /\ UNCHANGED <<chatOnlineUsers, userSockets, locationSubscribers>>
    /\ last' = Last("close", c, "")
    /\ UNCHANGED <<userLocations, tasks, rooms, chats, callVars>>

\* wss.on("connection") for a client that comes back: a new socket takes
\* the slot of a closed one that no map, set or suspended handler holds.
ChatReconnect(c) ==
    /\ chatWs[c].readyState = "CLOSED"
    /\ \A e \in userSockets : e.socket # c
    /\ \A t \in DOMAIN locationSubscribers : c \notin SetOf(locationSubscribers[t])
    /\ \A t \in BagToSet(tasks) : t.conn # c
    /\ chatWs' = [chatWs EXCEPT ![c] = [readyState |-> "OPEN", userId |-> NoUser,
                                        prior |-> chatWs[c].userId,
                                        accepted |-> Cardinality(ChatClients) + 1,
                                        closeFrameReceived |-> FALSE]]
    /\ sent' = <<>>
    /\ last' = Last("connection", c, "")
    /\ UNCHANGED <<chatOnlineUsers, userSockets, userLocations,
                   locationSubscribers, tasks, rooms, chats, callVars>>

(***************************************************************************)
(* The store behind the chat broker: prisma.room and prisma.chat.          *)
(***************************************************************************)
\* Lines 437-444, 479-486: room.findFirst for the unordered pair (a, b).
FindRoom(rs, a, b) ==
    {r \in rs : \/ r.senderId = a /\ r.receiverId = b
                \/ r.senderId = b /\ r.receiverId = a}

First(rs) == CHOOSE r \in rs : \A q \in rs : r.id <= q.id

\* Lines 447-449: room.create.
CreateRoom(rs, a, b) ==
    rs \cup {[id |-> Cardinality(rs) + 1, senderId |-> a, receiverId |-> b]}

\* Lines 452-460: chat.create.
CreateChat(cs, a, b, room) ==
    cs \cup {[id |-> Cardinality(cs) + 1, senderId |-> a, receiverId |-> b,
              roomId |-> room, isRead |-> FALSE]}

\* Lines 493-496: chat.findMany of a room.
ListChats(cs, room) == {x.id : x \in {y \in cs : y.roomId = room}}

\* Lines 498-501: chat.updateMany, the room's chats to uid become read.
MarkRead(cs, room, uid) ==
    {IF x.roomId = room /\ x.receiverId = uid THEN [x EXCEPT !.isRead = TRUE] ELSE x :
       x \in cs}

\* Lines 463-469: deliver to the receiver's registered socket when it is
\* open, then echo to the sender.
ReceiverSockets(users, w, peer) ==
    {e.socket : e \in {x \in MapGet(users, peer) : w[x.socket].readyState = "OPEN"}}

Deliver(t, chat) ==
    LET to == ReceiverSockets(userSockets, chatWs, t.peer)
    IN (IF to = {} THEN <<>>
        ELSE <<ChatEnvelope(CHOOSE c \in to : TRUE, "message", t.uid, FALSE,
                            "", "", chat, {})>>)
       \o <<ChatEnvelope(t.conn, "message", t.uid, FALSE, "", "", chat, {})>>

\* Lines 437-471: the message handler after each await.  A store call that
\* throws ends the handler in the outer catch, which only logs.
MessageResume(t, ok) ==
    /\ BagIn(t, tasks)
    /\ t.kind = "message"
    /\ UNCHANGED <<chatWs, chatOnlineUsers, userSockets, userLocations,
                   locationSubscribers, callVars>>
    /\ LET now == chatWs[t.conn].userId
           found == FindRoom(rooms, t.uid, t.peer)
       IN IF ~ok
          THEN /\ Continue(t, {})
               /\ sent' = <<>>
               /\ last' = Done(t, "store failed")
               /\ UNCHANGED <<rooms, chats>>
          ELSE IF t.pc = "findRoom"
          THEN /\ Continue(t, {IF found = {}
                               THEN [t EXCEPT !.pc = "createRoom", !.uid = now,
                                              !.hit = "none"]
                               ELSE [t EXCEPT !.pc = "createChat", !.uid = now,
                                              !.hit = "room",
                                              !.room = First(found).id]})
               /\ sent' = <<>>
               /\ last' = Last("resume", t.conn, "message")
               /\ UNCHANGED <<rooms, chats>>
          ELSE IF t.pc = "createRoom"
          THEN /\ rooms' = CreateRoom(rooms, t.uid, t.peer)
               /\ Continue(t, {[t EXCEPT !.pc = "createChat", !.uid = now,
                                         !.room = Cardinality(rooms) + 1,
                                         !.nrooms = t.nrooms + Cardinality(rooms')
                                                      - Cardinality(rooms)]})
               /\ sent' = <<>>
               /\ last' = Last("resume", t.conn, "message")
               /\ UNCHANGED chats
          ELSE /\ t.pc = "createChat"
               /\ chats' = CreateChat(chats, t.uid, t.peer, t.room)
               /\ Continue(t, {})
               /\ sent' = Deliver(t, Cardinality(chats) + 1)
               /\ last' = Done([t EXCEPT !.nchats = t.nchats + Cardinality(chats')
                                                  - Cardinality(chats)], "sent")
               /\ UNCHANGED rooms

\* A branch without its return: the handler goes on to chat.findMany.
AfterNoRoom_FallThrough(t) == {[t EXCEPT !.pc = "findMany"]}

\* Lines 488-491: after noRoomFound the handler returns.
AfterNoRoom(t) == {}

\* Lines 479-505: the fetchChats handler after each await.
FetchResume(t, ok) ==
    /\ BagIn(t, tasks)
    /\ t.kind = "fetchChats"
    /\ UNCHANGED <<chatWs, chatOnlineUsers, userSockets, userLocations,
                   locationSubscribers, rooms, callVars>>
    /\ LET now == chatWs[t.conn].userId
           found == FindRoom(rooms, t.uid, t.peer)
       IN IF ~ok
          THEN /\ Continue(t, {})
               /\ sent' = <<>>
               /\ last' = Done(t, "store failed")
               /\ UNCHANGED chats
          ELSE IF t.pc = "findRoom"
          THEN IF found = {}
               THEN /\ Continue(t, AfterNoRoom(t))
                    /\ sent' = <<ChatEnvelope(t.conn, "noRoomFound", NoUser, FALSE,
                                              "", "", 0, {})>>
                    /\ last' = Done(t, "noRoomFound")
                    /\ UNCHANGED chats
               ELSE /\ Continue(t, {[t EXCEPT !.pc = "findMany", !.hit = "room",
                                              !.room = First(found).id]})
                    /\ sent' = <<>>
                    /\ last' = Last("resume", t.conn, "fetchChats")
                    /\ UNCHANGED chats
          ELSE IF t.pc = "findMany"
          THEN /\ Continue(t, {[t EXCEPT !.pc = "updateMany", !.uid = now,
                                         !.list = ListChats(chats, t.room)]})
               /\ sent' = <<>>
               /\ last' = Last("resume", t.conn, "fetchChats")
               /\ UNCHANGED chats
          ELSE /\ t.pc = "updateMany"
               /\ chats' = MarkRead(chats, t.room, t.uid)
               /\ Continue(t, {})
               /\ sent' = <<ChatEnvelope(t.conn, "fetchChats", NoUser, FALSE,
                                         "", "", 0, t.list)>>
               /\ last' = Done(t, "fetched")

\* Lines 527-529: chat.findMany of the chats of a room that uid has not
\* read.
Unread(cs, room, uid) ==
    {x.id : x \in {y \in cs : y.roomId = room /\ ~y.isRead /\ y.receiverId = uid}}

\* Lines 513-538: the unReadMessages handler after each await.  The count
\* of the answer is the number of chats in its list.
UnreadResume(t, ok) ==
    /\ BagIn(t, tasks)
    /\ t.kind = "unReadMessages"
    /\ UNCHANGED <<chatWs, chatOnlineUsers, userSockets, userLocations,
                   locationSubscribers, rooms, chats, callVars>>
    /\ LET now == chatWs[t.conn].userId
           found == FindRoom(rooms, t.uid, t.peer)
       IN IF ~ok
          THEN /\ Continue(t, {})
               /\ sent' = <<>>
               /\ last' = Done(t, "store failed")
          ELSE IF t.pc = "findRoom"
          THEN IF found = {}
               THEN /\ Continue(t, {})
                    /\ sent' = <<ChatEnvelope(t.conn, "noUnreadMessages", NoUser,
                                              FALSE, "", "", 0, {})>>
                    /\ last' = Done(t, "noUnreadMessages")
               ELSE /\ Continue(t, {[t EXCEPT !.pc = "findMany", !.uid = now,
                                              !.hit = "room",
                                              !.room = First(found).id]})
                    /\ sent' = <<>>
                    /\ last' = Last("resume", t.conn, "unReadMessages")
          ELSE /\ t.pc = "findMany"
               /\ Continue(t, {})
               /\ sent' = <<ChatEnvelope(t.conn, "unReadMessages", NoUser, FALSE,
                                         "", "", 0, Unread(chats, t.room, t.uid))>>
               /\ last' = Done(t, "unread")

\* Lines 551-554: the newest chat of a room, 0 when it has none.
Newest(cs, room) ==
    LET ids == {x.id : x \in {y \in cs : y.roomId = room}}
    IN IF ids = {} THEN 0 ELSE CHOOSE i \in ids : \A j \in ids : j <= i

\* Lines 558-560, 568-569: the other party of a room, seen from uid.
Other(r, uid) == IF r.senderId = uid THEN r.receiverId ELSE r.senderId

\* Lines 545-556: room.findMany of the rooms of uid, each with its newest
\* chat; asked is the party of the room that lines 558-560 put into
\* userIds, computed from ws.userId as it is when the query returns.
RoomsOfUser(rs, cs, uid, now) ==
    {[id |-> r.id, senderId |-> r.senderId, receiverId |-> r.receiverId,
      last |-> Newest(cs, r.id), asked |-> Other(r, now)] :
       r \in {q \in rs : q.senderId = uid \/ q.receiverId = uid}}

\* Lines 567-575: one entry for every room, in the order of the rooms.
\* userInfos are the rows user.findMany returned, user is null (NoUser)
\* when the other party has none, and at is the place of the entry.
WithLastMessages(rows, userInfos, now) ==
    {[at |-> Cardinality({q \in rows : q.id <= r.id}),
      user |-> IF Other(r, now) \in userInfos THEN Other(r, now) ELSE NoUser,
      lastMessage |-> r.last] : r \in rows}

\* Lines 578-584: the catch of the messageList case answers the sender;
\* "Failed to fetch message list" is the one error text of the chat broker.
ListFailed(t) == <<ChatEnvelope(t.conn, "error", NoUser, FALSE, "", "", 0, {})>>

\* Lines 543-586: the messageList handler after each await.  known are
\* the identities that have a row in the user table.
ListResume(t, ok, known) ==
    /\ BagIn(t, tasks)
    /\ t.kind = "messageList"
    /\ UNCHANGED <<chatWs, chatOnlineUsers, userSockets, userLocations,
                   locationSubscribers, rooms, chats, callVars>>
    /\ LET now == chatWs[t.conn].userId
       IN IF ~ok
          THEN /\ Continue(t, {})
               /\ sent' = ListFailed(t)
               /\ last' = Done(t, "store failed")
          ELSE IF t.pc = "findRooms"
          THEN /\ Continue(t, {[t EXCEPT !.pc = "findUsers",
                                         !.list = RoomsOfUser(rooms, chats, t.uid, now)]})
               /\ sent' = <<>>
               /\ last' = Last("resume", t.conn, "messageList")
          ELSE /\ t.pc = "findUsers"
               /\ Continue(t, {})
               /\ sent' = <<ChatEnvelope(t.conn, "messageList", NoUser, FALSE, "", "", 0,
                              WithLastMessages(t.list,
                                 known \cap {r.asked : r \in t.list}, now))>>
               /\ last' = Done(t, "listed")

(***************************************************************************)
(* Specifications.                                                         *)
(***************************************************************************)
\* The message event of frame f on connection c suspends a handler at a
\* store call.
Suspends(c, f) ==
    /\ f.parses
    /\ f.event \in {"locationUpdate", "message", "fetchChats", "unReadMessages",
                    "messageList"}
    /\ ~Ignored(c, f)

\* The code limits neither the handlers in flight nor the rows of the
\* store.  The specifications below take a message event that suspends a
\* handler only while fewer than MaxTasks are suspended, and one that
\* stores a chat only while the store has room for it.
Within(c, f) ==
    Suspends(c, f) =>
       /\ BagCardinality(tasks) < MaxTasks
       /\ f.event = "message" =>
             /\ Cardinality(chats) + Copies(Pending("message")) < MaxChats
             /\ Cardinality(rooms) + Copies(Pending("message")) < MaxChats

Receive(c, f) == Within(c, f) /\ ChatMessage(c, f)

vars == <<ws, onlineUsers, onlineCouriers, chatWs, chatOnlineUsers, userSockets,
          userLocations, locationSubscribers, tasks, rooms, chats, sent, last>>

Init ==
    /\ ws = [c \in Conns |-> Unused]
    /\ onlineUsers = {}
    /\ onlineCouriers = {}
    /\ chatWs = [c \in Conns |-> ChatUnused]
    /\ chatOnlineUsers = {}
    /\ userSockets = {}
    /\ userLocations = [u \in Users |-> [lat |-> "", lng |-> ""]]
    /\ locationSubscribers = [t \in Users |-> <<>>]
    /\ tasks = EmptyBag
    /\ rooms = {}
    /\ chats = {}
    /\ sent = <<>>
    /\ last = Last("init", 0, "")

\* The call broker's registry and liveness monitor: connections open,
\* authenticate, are probed, and close.
Next ==
    \/ \E c \in Conns, p \in Paths : Connect(c, p)
    \/ \E c \in Conns : Pong(c)
    \/ Tick
    \/ \E c \in Conns : PeerClosing(c)
    \/ \E c \in Conns : Close(c)
    \/ \E c \in Conns, f \in ValidAuthFrames : Message(c, f)

Spec == Init /\ [][Next]_vars

\* The call broker's router: connections open, send any frame, and close.
NextCall ==
    \/ \E c \in Conns, p \in Paths : Connect(c, p)
    \/ \E c \in Conns : PeerClosing(c)
    \/ \E c \in Conns : Close(c)
    \/ \E c \in Conns, f \in CallFrames : Message(c, f)

\* The chat broker's presence: connections open, authenticate with any
\* token, send what cannot be parsed or is unknown, send every event
\* before they have authenticated, and close.
NextPresence ==
    \/ \E c \in Conns : ChatConnect(c)
    \/ \E c \in Conns : ChatPeerClosing(c)
    \/ \E c \in Conns : ChatClose(c)
    \/ \E c \in Conns, f \in ChatAuthFrames \cup JunkFrames : Receive(c, f)
    \/ \E c \in Conns, f \in EventFrames :
         chatWs[c].userId = NoUser /\ Receive(c, f)

CallIdle == \A c \in Conns : ws[c].readyState = "NONE"

ChatIdle == \A c \in Conns : chatWs[c].readyState = "NONE"

\* A deployment runs one of the two brokers: the routers of both.
NextRouter ==
    \/ ChatIdle /\ NextCall
    \/ CallIdle /\ NextPresence

SpecRouter == Init /\ [][NextRouter]_vars

\* The chat broker's location events.
NextLocation ==
    \/ \E c \in Conns : ChatConnect(c)
    \/ \E c \in Conns : ChatPeerClosing(c)
    \/ \E c \in Conns : ChatClose(c)
    \/ \E c \in Conns, f \in ValidChatAuthFrames : Receive(c, f)
    \/ \E c \in Conns, f \in LocationFrames \cup NoTokenFrames : Receive(c, f)
    \/ \E t \in Pending("locationUpdate"), stored \in BOOLEAN : LocationResume(t, stored)

SpecLocation == Init /\ [][NextLocation]_vars

\* The chat broker's location events with two positions.
NextOrder ==
    \/ \E c \in Conns : ChatConnect(c)
    \/ \E c \in Conns : ChatPeerClosing(c)
    \/ \E c \in Conns : ChatClose(c)
    \/ \E c \in Conns, f \in ValidChatAuthFrames : Receive(c, f)
    \/ \E c \in Conns, f \in OrderFrames : Receive(c, f)
    \/ \E t \in Pending("locationUpdate"), stored \in BOOLEAN : LocationResume(t, stored)

SpecOrder == Init /\ [][NextOrder]_vars

\* The chat broker's message event.
NextMessage ==
    \/ \E c \in Conns : ChatConnect(c)
    \/ \E c \in Conns : ChatPeerClosing(c)
    \/ \E c \in Conns : ChatClose(c)
    \/ \E c \in Conns, f \in ValidChatAuthFrames : Receive(c, f)
    \/ \E c \in Conns, f \in MessageFrames : Receive(c, f)
    \/ \E t \in Pending("message"), ok \in BOOLEAN : MessageResume(t, ok)

SpecMessage == Init /\ [][NextMessage]_vars

\* The chat broker's fetchChats event, with the messages that fill the
\* store, over MaxReaders connections.
NextFetch ==
    \/ \E c \in Readers : ChatConnect(c)
    \/ \E c \in Readers : ChatPeerClosing(c)
    \/ \E c \in Readers : ChatClose(c)
    \/ \E c \in Readers, f \in ValidChatAuthFrames : Receive(c, f)
    \/ \E c \in Readers, f \in FetchFrames : Receive(c, f)
    \/ \E t \in Pending("message"), ok \in BOOLEAN : MessageResume(t, ok)
    \/ \E t \in Pending("fetchChats"), ok \in BOOLEAN : FetchResume(t, ok)

SpecFetch == Init /\ [][NextFetch]_vars

\* The chat broker's unReadMessages and messageList events, with the
\* messages that fill the store, over MaxReaders connections.
NextInbox ==
    \/ \E c \in Readers : ChatConnect(c)
    \/ \E c \in Readers : ChatPeerClosing(c)
    \/ \E c \in Readers : ChatClose(c)
    \/ \E c \in Readers, f \in ValidChatAuthFrames : Receive(c, f)
    \/ \E c \in Readers, f \in InboxFrames : Receive(c, f)
    \/ \E t \in Pending("message"), ok \in BOOLEAN : MessageResume(t, ok)
    \/ \E t \in Pending("unReadMessages"), ok \in BOOLEAN : UnreadResume(t, ok)
    \/ \E t \in Pending("messageList"), ok \in BOOLEAN, known \in SUBSET Users :
         ListResume(t, ok, known)

SpecInbox == Init /\ [][NextInbox]_vars

\* The chat broker's location events over connections that close and come
\* back.
NextSubscription ==
    \/ \E c \in Conns : ChatConnect(c)
    \/ \E c \in Conns : ChatReconnect(c)
    \/ \E c \in Conns : ChatPeerClosing(c)
    \/ \E c \in Conns : ChatClose(c)
    \/ \E c \in Conns, f \in ValidChatAuthFrames : Receive(c, f)
    \/ \E c \in Conns :
         Receive(c, ChatFrame(TRUE, "locationUpdate", NoToken, NoUser, "10", "20", ""))
    \/ \E c \in Conns :
         Receive(c, ChatFrame(TRUE, "subscribeToLocation", NoToken, "u2", "", "", ""))
    \/ \E t \in Pending("locationUpdate"), stored \in BOOLEAN : LocationResume(t, stored)

SpecSubscription == Init /\ [][NextSubscription]_vars

\* Every relay of either broker, with frames that claim an originator.
NextRelay ==
    \/ ChatIdle /\ NextCall
    \/ ChatIdle /\ \E c \in Conns, f \in SpoofedFrames : Message(c, f)
    \/ CallIdle /\ NextLocation
    \/ CallIdle /\ \E c \in Conns, f \in SpoofedLocationFrames : Receive(c, f)

SpecRelay == Init /\ [][NextRelay]_vars

(***************************************************************************)
(* Properties.                                                             *)
(***************************************************************************)
\* The step is a message event of the call broker, of the chat broker.
\* last'.conn is its connection and last'.event the event of its frame, ""
\* for a frame that does not parse.
CallStep == last'.op = "message" /\ ws[last'.conn].readyState # "NONE"

ChatStep == last'.op = "message" /\ chatWs[last'.conn].readyState # "NONE"

\* The connection an entry references.
SocketsOf(m, id) == {e.socket : e \in MapGet(m, id)}

\* C1: the registry holds at most one entry for an identity, and when a
\* connection authenticates as an identity the registry already holds (on
\* the same path, where the registry keeps one), the connection that was
\* registered is no longer open afterwards and the entry is the new
\* connection's.
C1_OneEntryPriorClosed ==
    /\ [](\A id \in Users : /\ Cardinality(MapGet(onlineUsers, id)) <= 1
                            /\ Cardinality(MapGet(userSockets, id)) <= 1)
    /\ [][/\ \A c \in Conns, f \in ValidAuthFrames :
              Message(c, f) /\ ShouldEvict(onlineUsers, f.token.id, ws[c].path) =>
                 /\ \A d \in SocketsOf(onlineUsers, f.token.id) \ {c} :
                       ws'[d].readyState # "OPEN"
                 /\ SocketsOf(onlineUsers', f.token.id) = {c}
          /\ \A c \in Conns, f \in ValidChatAuthFrames :
              ChatMessage(c, f) /\ MapHas(userSockets, f.token.id) =>
                 /\ \A d \in SocketsOf(userSockets, f.token.id) \ {c} :
                       chatWs'[d].readyState # "OPEN"
                 /\ SocketsOf(userSockets', f.token.id) = {c}]_vars

\* The step serves a frame that parses and is not authenticate.
EventStep == last'.event \notin {"", "authenticate"}

\* C2 as stated: every event but authenticate from a connection with no
\* bound identity is answered with the error envelope "Please authenticate
\* first" and changes nothing, in both brokers.
C2_AnsweredEverywhere ==
    [][/\ CallStep /\ EventStep /\ ws[last'.conn].userId = NoUser =>
          /\ sent' = <<ErrorEnvelope(last'.conn, "Please authenticate first")>>
          /\ UNCHANGED <<callVars, chatVars, storeVars>>
       /\ ChatStep /\ EventStep /\ chatWs[last'.conn].userId = NoUser =>
          /\ \E i \in 1..Len(sent') :
                sent'[i].to = last'.conn /\ sent'[i].event = "error"
          /\ UNCHANGED <<callVars, chatVars, storeVars>>]_vars

\* C2: an event other than authenticate from a connection with no bound
\* identity changes no state (registry, role index, location records,
\* subscription index, pending handlers, store) and relays nothing; the
\* call broker answers it with the error envelope "Please authenticate
\* first", the chat broker sends no answer.
C2_GateNoMutation ==
    [][/\ CallStep /\ EventStep /\ ws[last'.conn].userId = NoUser =>
          /\ sent' = <<ErrorEnvelope(last'.conn, "Please authenticate first")>>
          /\ UNCHANGED <<callVars, chatVars, storeVars>>
       /\ ChatStep /\ EventStep /\ chatWs[last'.conn].userId = NoUser =>
          /\ sent' = <<>>
          /\ UNCHANGED <<callVars, chatVars, storeVars>>]_vars

\* A connection with no bound identity has sent subscribeToLocation to the
\* chat broker while another connection is registered, and is unanswered.
C2_Witness ==
    /\ last.op = "message"
    /\ last.event = "subscribeToLocation"
    /\ chatWs[last.conn].userId = NoUser
    /\ userSockets # {}
    /\ sent = <<>>

\* C3: the close event of a connection the liveness monitor has evicted
\* causes no second offline transition: the eviction removed its identity
\* from the registry and the role index, and the close that follows leaves
\* both as they are.
C3_OfflineOnce ==
    [][\A c \in Conns :
         Close(c) /\ ws[c].terminated =>
            /\ onlineUsers' = onlineUsers
            /\ onlineCouriers' = onlineCouriers]_vars

SentTo(envelopes, d) == Cardinality({i \in 1..Len(envelopes) : envelopes[i].to = d})

\* C4: a connection that sends subscribeToLocation for a target is in the
\* target's subscriber set and stays in it until its close event, after
\* which it is in no subscriber set; and every locationUpdate of identity T
\* with lat and lng present sends exactly one locationUpdate{userId: T,
\* lat, lng} to each open connection of T's subscriber set and nothing to
\* any other connection, whether the store call succeeded or not.
C4_SubscribeFanOut ==
    /\ [](/\ \A c \in Conns :
              chatWs[c].readyState = "CLOSED" =>
                 \A t \in Users : c \notin SetOf(locationSubscribers[t])
          /\ (last.op = "done" /\ last.task.kind = "locationUpdate") =>
                /\ \A d \in Conns :
                      SentTo(sent, d) =
                        IF /\ d \in SetOf(locationSubscribers[last.task.uid])
                           /\ chatWs[d].readyState = "OPEN"
                        THEN 1 ELSE 0
                /\ \A i \in 1..Len(sent) :
                      sent[i] = ChatEnvelope(sent[i].to, "locationUpdate",
                                             last.task.uid, FALSE, last.task.lat,
                                             last.task.lng, 0, {}))
    /\ [][/\ \A c \in Conns, f \in LocationFrames :
              /\ ChatMessage(c, f)
              /\ f.event = "subscribeToLocation"
              /\ chatWs[c].userId # NoUser
              /\ f.peer # NoUser
              => c \in SetOf(locationSubscribers'[f.peer])
          /\ \A c \in Conns, t \in Users :
              c \in SetOf(locationSubscribers[t]) /\ chatWs'[c].readyState # "CLOSED"
              => c \in SetOf(locationSubscribers'[t])]_vars

\* The step serves callUser from an authenticated connection whose role is
\* not Client.
NonClientCall ==
    /\ CallStep
    /\ last'.event = "callUser"
    /\ ws[last'.conn].userId # NoUser
    /\ ws[last'.conn].userRole # "Client"

\* One error envelope to c and nothing else.
OnlyErrorTo(c, envelopes) ==
    /\ Len(envelopes) = 1
    /\ envelopes[1].to = c
    /\ envelopes[1].event = "error"

NoIncomingCall(envelopes) ==
    \A i \in 1..Len(envelopes) : envelopes[i].event # "incomingCall"

\* C5 as stated: callUser from an authenticated connection whose role is
\* not Client yields an error envelope to the caller and no incomingCall.
C5_ErrorEverywhere ==
    [][NonClientCall => OnlyErrorTo(last'.conn, sent') /\ NoIncomingCall(sent')]_vars

\* C5: callUser from an authenticated connection whose role is not Client
\* never relays incomingCall, whatever the target and callType, and leaves
\* the registry as it is; on a path other than /driver-location the caller
\* gets one error envelope, on /driver-location the event is only logged.
C5_NonClientNoCall ==
    [][NonClientCall =>
         /\ NoIncomingCall(sent')
         /\ UNCHANGED callVars
         /\ IF ws[last'.conn].path = "/driver-location"
            THEN sent' = <<>>
            ELSE OnlyErrorTo(last'.conn, sent')]_vars

\* A Host, open and registered, has sent callUser and got the error.
C5_Witness ==
    /\ last.op = "message"
    /\ last.event = "callUser"
    /\ ws[last.conn].userRole = "Host"
    /\ ws[last.conn].readyState = "OPEN"
    /\ MapHas(onlineUsers, ws[last.conn].userId)
    /\ sent = <<ErrorEnvelope(last.conn, "Only Client can initiate a call.")>>

\* C6: a message handler whose room lookup found no Room for the pair and
\* whose store calls succeed creates exactly one Room, of the pair, and
\* exactly one Chat, linked to that Room; it sends the chat once to the
\* receiver's registered connection if and only if that connection is
\* open, and once to the sender whatever the receiver's state.
C6_MessageCreates ==
    (/\ last.op = "done"
     /\ last.task.kind = "message"
     /\ last.event = "sent"
     /\ last.task.hit = "none") =>
       LET t == last.task
           open == {e.socket : e \in {x \in MapGet(userSockets, t.peer) :
                                        chatWs[x.socket].readyState = "OPEN"}}
       IN /\ t.nrooms = 1
          /\ t.nchats = 1
          /\ \E r \in rooms, x \in chats :
                /\ r.id = t.room
                /\ {r.senderId, r.receiverId} = {t.uid, t.peer}
                /\ x.roomId = r.id
                /\ x.senderId = t.uid
                /\ x.receiverId = t.peer
                /\ \A i \in 1..Len(sent) :
                      sent[i] = ChatEnvelope(sent[i].to, "message", t.uid, FALSE,
                                             "", "", x.id, {})
          /\ \A d \in Conns :
                SentTo(sent, d) = (IF d \in open THEN 1 ELSE 0)
                                  + (IF d = t.conn THEN 1 ELSE 0)

\* The store holds no Room for the unordered pair (a, b).
NoRoomFor(a, b) == \A r \in rooms : {r.senderId, r.receiverId} # {a, b}

\* C7: a fetchChats handler whose lookup runs when the store holds no Room
\* for the pair sends noRoomFound to the caller and ends: it makes no
\* further store call, lists no chat and marks none read.
C7_NoRoomFound ==
    [][\A t \in Pending("fetchChats") :
         FetchResume(t, TRUE) /\ t.pc = "findRoom" /\ NoRoomFor(t.uid, t.peer) =>
            /\ sent' = <<ChatEnvelope(t.conn, "noRoomFound", NoUser, FALSE,
                                      "", "", 0, {})>>
            /\ tasks' = tasks (-) SetToBag({t})
            /\ UNCHANGED <<rooms, chats>>]_vars

\* noRoomFound has been sent while the store holds an unread chat of
\* another pair.
C7_Witness ==
    /\ last.op = "done"
    /\ last.event = "noRoomFound"
    /\ sent = <<ChatEnvelope(last.conn, "noRoomFound", NoUser, FALSE, "", "", 0, {})>>
    /\ \E x \in chats : ~x.isRead

\* The envelopes of one broadcast: userStatus{id, online}.
AllUserStatus(envelopes, id, online) ==
    \A i \in 1..Len(envelopes) :
       /\ envelopes[i].event = "userStatus"
       /\ envelopes[i].userId = id
       /\ envelopes[i].isOnline = online

\* The step is a successful authenticate of the chat broker: the frame's
\* token is one verifyToken accepts.
Authenticated ==
    /\ ChatStep
    /\ last'.event = "authenticate"
    /\ \E f \in ValidChatAuthFrames : ChatMessage(last'.conn, f)

\* The step is the close event of a chat connection with a bound identity.
ClosedBound ==
    /\ last'.op = "close"
    /\ chatWs[last'.conn].readyState # "NONE"
    /\ chatWs[last'.conn].userId # NoUser

\* C8 as stated: on a successful authenticate and on the close of a
\* connection with a bound identity, userStatus goes once to every open
\* connection except the one making the transition.
C8_ExceptTransitioning ==
    [][/\ Authenticated =>
          /\ AllUserStatus(sent', chatWs'[last'.conn].userId, TRUE)
          /\ \A d \in Conns :
                SentTo(sent', d) =
                  IF d # last'.conn /\ chatWs'[d].readyState = "OPEN" THEN 1 ELSE 0
       /\ ClosedBound =>
          /\ AllUserStatus(sent', chatWs[last'.conn].userId, FALSE)
          /\ \A d \in Conns :
                SentTo(sent', d) =
                  IF d # last'.conn /\ chatWs'[d].readyState = "OPEN" THEN 1 ELSE 0]_vars

\* C8: on a successful authenticate and on the close of a connection with
\* a bound identity, one userStatus{userId, isOnline} goes to every open
\* connection and to no other, isOnline true for authenticate and false
\* for close; the authenticating connection, when open, is among them, the
\* closing one is not.
C8_PresenceBroadcast ==
    [][/\ Authenticated =>
          /\ AllUserStatus(sent', chatWs'[last'.conn].userId, TRUE)
          /\ \A d \in Conns :
                SentTo(sent', d) = IF chatWs'[d].readyState = "OPEN" THEN 1 ELSE 0
       /\ ClosedBound =>
          /\ AllUserStatus(sent', chatWs[last'.conn].userId, FALSE)
          /\ SentTo(sent', last'.conn) = 0
          /\ \A d \in Conns \ {last'.conn} :
                SentTo(sent', d) = IF chatWs'[d].readyState = "OPEN" THEN 1 ELSE 0]_vars

\* An authenticate has been broadcast to the authenticating connection and
\* to another one.
C8_Witness ==
    /\ last.op = "message"
    /\ last.event = "authenticate"
    /\ \E i, j \in 1..Len(sent) :
          /\ sent[i].event = "userStatus"
          /\ sent[i].to = last.conn
          /\ sent[j].to # last.conn

\* C9: cleanup is idempotent: the registry and the role index after the
\* cleanup of a connection has run twice are those after it has run once (a
\* delete of an absent entry is a no-op, not an error), and for a
\* connection the liveness monitor has evicted, whose close event is still
\* to come, the cleanup that event runs finds the registries as a single
\* cleanup leaves them: it removes nothing.
C9_CleanupIdempotent ==
    \A c \in Conns :
       LET users1 == CleanupUsers(onlineUsers, ws[c])
           couriers1 == CleanupCouriers(onlineCouriers, ws[c])
       IN /\ CleanupUsers(users1, ws[c]) = users1
          /\ CleanupCouriers(couriers1, ws[c]) = couriers1
          /\ (c \in Clients /\ ws[c].terminated) =>
                /\ users1 = onlineUsers
                /\ couriers1 = onlineCouriers

\* The step serves a frame that fails to parse.
ParseFailure == last'.event = ""

\* C10 as stated: a message that fails to parse is answered with the error
\* envelope "Invalid message format", the connection stays open, and the
\* registry and the bound identity are unchanged, in both brokers.
C10_AnsweredEverywhere ==
    [][/\ CallStep /\ ParseFailure =>
          /\ sent' = <<ErrorEnvelope(last'.conn, "Invalid message format")>>
          /\ UNCHANGED callVars
       /\ ChatStep /\ ParseFailure =>
          /\ \E i \in 1..Len(sent') :
                sent'[i].to = last'.conn /\ sent'[i].event = "error"
          /\ UNCHANGED chatVars]_vars

\* C10: a message that fails to parse leaves the connection as it is (open
\* when it was open, with the identity it had) and every registry
\* unchanged; the call broker answers it with the error envelope "Invalid
\* message format", the chat broker only logs it and sends nothing.
C10_ParseFailure ==
    [][/\ CallStep /\ ParseFailure =>
          /\ sent' = <<ErrorEnvelope(last'.conn, "Invalid message format")>>
          /\ UNCHANGED callVars
       /\ ChatStep /\ ParseFailure =>
          /\ sent' = <<>>
          /\ UNCHANGED chatVars]_vars

\* An open, registered connection of the call broker has sent a message
\* that does not parse and has the answer.
C10_Witness ==
    /\ last.op = "message"
    /\ last.event = ""
    /\ ws[last.conn].readyState = "OPEN"
    /\ MapHas(onlineUsers, ws[last.conn].userId)
    /\ sent = <<ErrorEnvelope(last.conn, "Invalid message format")>>

\* The step serves an authenticate whose credential is missing or fails
\* verification, in the call broker, in the chat broker.
FailedCallAuth ==
    /\ CallStep
    /\ last'.event = "authenticate"
    /\ \E f \in AuthFrames : ~f.token.valid /\ Message(last'.conn, f)

FailedChatAuth ==
    /\ ChatStep
    /\ last'.event = "authenticate"
    /\ \E f \in ChatAuthFrames : ~f.token.valid /\ ChatMessage(last'.conn, f)

NoUserStatus(envelopes) ==
    \A i \in 1..Len(envelopes) : envelopes[i].event # "userStatus"

\* C11: an authenticate with a missing credential or one that fails
\* verification ends with the connection closed or an error envelope sent
\* to it; it binds no identity, leaves every registry entry as it is,
\* closes no other connection and broadcasts no presence, also when the
\* connection had authenticated before.
C11_ClosedOrError ==
    [][/\ FailedCallAuth =>
          /\ \/ ws'[last'.conn].readyState # "OPEN"
             \/ OnlyErrorTo(last'.conn, sent')
          /\ \A d \in Conns :
                /\ ws'[d].userId = ws[d].userId
                /\ d # last'.conn => ws'[d].readyState = ws[d].readyState
          /\ UNCHANGED <<onlineUsers, onlineCouriers>>
       /\ FailedChatAuth =>
          /\ \/ chatWs'[last'.conn].readyState # "OPEN"
             \/ OnlyErrorTo(last'.conn, sent')
          /\ \A d \in Conns :
                /\ chatWs'[d].userId = chatWs[d].userId
                /\ d # last'.conn => chatWs'[d].readyState = chatWs[d].readyState
          /\ UNCHANGED <<chatOnlineUsers, userSockets>>
          /\ NoUserStatus(sent')]_vars

\* The step serves callUser from an authenticated connection whose role is
\* Client.
ClientCall ==
    /\ CallStep
    /\ last'.event = "callUser"
    /\ ws[last'.conn].userId # NoUser
    /\ ws[last'.conn].userRole = "Client"

\* The connections a callUser to id may be relayed to: the registry has an
\* entry for id whose connection is open and has role Host.
OpenHosts(id) ==
    {e.socket : e \in {x \in onlineUsers : /\ x.key = id
                                           /\ ws[x.socket].readyState = "OPEN"
                                           /\ ws[x.socket].userRole = "Host"}}

\* What C12 says of callUser(f) from connection c.
CallOutcome(c, f, envelopes) ==
    IF f.callType \notin {"audio", "video"}
    THEN envelopes = <<ErrorEnvelope(c, "Invalid or missing callType. Must be 'audio' or 'video'.")>>
    ELSE IF OpenHosts(f.toUserId) # {}
    THEN /\ Len(envelopes) = 1
         /\ envelopes[1].to \in OpenHosts(f.toUserId)
         /\ envelopes[1].event = "incomingCall"
         /\ envelopes[1].userId = ws[c].userId
         /\ envelopes[1].payload = f.payload
         /\ envelopes[1].callType = f.callType
    ELSE envelopes = <<ErrorEnvelope(c, "Host not available or invalid recipient.")>>

\* C12 as stated: callUser from a Client with callType audio or video
\* relays incomingCall{caller id, offer, callType} to the target if and
\* only if the target identity has a registry entry whose connection is
\* open and has role Host, and in every other case answers the caller with
\* "Host not available or invalid recipient"; a missing or other callType
\* yields the "Invalid or missing callType" error and no relay.
C12_RelayEverywhere ==
    [][ClientCall =>
         \A f \in CallFrames :
            f.event = "callUser" /\ Message(last'.conn, f) =>
               CallOutcome(last'.conn, f, sent')]_vars

\* C12: the same for a caller on a path other than /driver-location; a
\* callUser that arrives on /driver-location is only logged, nothing is
\* relayed and nothing answered.  The registry is unchanged in every case.
C12_RelayIffOpenHost ==
    [][ClientCall =>
         /\ UNCHANGED callVars
         /\ \A f \in CallFrames :
               f.event = "callUser" /\ Message(last'.conn, f) =>
                  IF ws[last'.conn].path = "/driver-location"
                  THEN sent' = <<>>
                  ELSE CallOutcome(last'.conn, f, sent')]_vars

\* A Client's callUser has been relayed to the open connection of a Host
\* with the offer and the callType of the frame.
C12_Witness ==
    /\ last.op = "message"
    /\ last.event = "callUser"
    /\ Len(sent) = 1
    /\ sent[1].event = "incomingCall"
    /\ sent[1].to # last.conn
    /\ sent[1].userId = "u1"
    /\ sent[1].payload = "sdp"
    /\ sent[1].callType = "audio"

\* C13: a connection leaves a subscriber set only by its own close event:
\* the close of a connection bound to the target T leaves the other
\* members of T's subscriber set in it, and so does every other step; and
\* every locationUpdate sent by a connection bound to T, also one that came
\* and authenticated as T after an earlier connection of T had closed, is
\* delivered once, as an update of T, to every open member of T's
\* subscriber set.
C13_SubscriptionOutlivesTarget ==
    /\ []((last.op = "done" /\ last.task.kind = "locationUpdate") =>
             \A d \in Conns :
                (/\ d \in SetOf(locationSubscribers[last.task.uid])
                 /\ chatWs[d].readyState = "OPEN")
                => /\ SentTo(sent, d) = 1
                   /\ \A i \in 1..Len(sent) :
                         sent[i].to = d => sent[i].userId = last.task.uid)
    /\ [][\A c \in Conns, t \in Users :
             c \in SetOf(locationSubscribers[t]) /\ c \notin SetOf(locationSubscribers'[t])
             => last'.op = "close" /\ last'.conn = c]_vars

\* C14: on each tick of the monitor a connection whose isAlive flag is
\* false is terminated and the entries of its identity are removed from
\* the registry and, for a Client, from the role index; every other
\* connection has its flag set to false and is sent one probe.  A pong sets
\* the flag to true, and nothing else but the connection event does; only
\* the monitor sets it to false, and only the monitor terminates.  So a
\* connection whose pong arrives before each tick is never terminated, and
\* one that sends no pong is terminated at the second tick after its last.
C14_LivenessMonitor ==
    [][/\ last'.op = "tick" =>
          \A c \in Conns :
             ws[c].readyState \in {"OPEN", "CLOSING"} =>
                IF ws[c].isAlive
                THEN /\ ~ws'[c].isAlive
                     /\ ~ws'[c].terminated
                     /\ ws'[c].readyState = ws[c].readyState
                     /\ Cardinality({i \in 1..Len(sent') :
                                       sent'[i].to = c /\ sent'[i].event = "ping"}) = 1
                ELSE /\ ws'[c].terminated
                     /\ ws'[c].readyState = "CLOSING"
                     /\ SentTo(sent', c) = 0
                     /\ ws[c].userId # NoUser =>
                           /\ ~MapHas(onlineUsers', ws[c].userId)
                           /\ ws[c].userRole = "Client" =>
                                 ~MapHas(onlineCouriers', ws[c].userId)
       /\ last'.op = "pong" => ws'[last'.conn].isAlive
       /\ \A c \in Conns :
             /\ (ws'[c].isAlive /\ ~ws[c].isAlive) =>
                   last'.op \in {"pong", "connection"} /\ last'.conn = c
             /\ (ws[c].isAlive /\ ~ws'[c].isAlive) =>
                   \/ last'.op = "tick"
                   \/ last'.op = "close" /\ last'.conn = c
             /\ (ws'[c].terminated /\ ~ws[c].terminated) =>
                   last'.op = "tick" /\ ~ws[c].isAlive]_vars

\* One tick has terminated a registered connection that sent no pong since
\* the tick before and removed its entry, and has probed another, open
\* connection that had answered.
C14_Witness ==
    /\ last.op = "tick"
    /\ \E c, d \in Conns :
          /\ ws[c].terminated
          /\ ws[c].userId # NoUser
          /\ ~MapHas(onlineUsers, ws[c].userId)
          /\ ws[d].readyState = "OPEN"
          /\ ~ws[d].terminated
          /\ ws[d].userId # NoUser
          /\ sent = <<Envelope(d, "ping", "", NoUser, "", "")>>

RelayedEvents == {"incomingCall", "callAnswered", "iceCandidate", "callDisconnected"}

\* C15: every relayed envelope names as its originator the identity bound
\* to the connection that sent the frame: incomingCall, callAnswered,
\* iceCandidate and callDisconnected carry the sender's ws.userId whatever
\* fromUserId the frame claims, two frames that differ only in that field
\* are served alike, and every envelope of a location fan-out carries the
\* identity that the connection whose locationUpdate it is holds when the
\* envelope is sent.
C15_OriginatorIsBound ==
    /\ [](/\ \A c \in Conns, f \in SpoofedFrames :
               ws[c].readyState \in {"OPEN", "CLOSING"} =>
                  Route(c, f) = Route(c, [f EXCEPT !.fromUserId = NoUser])
          /\ (last.op = "done" /\ last.task.kind = "locationUpdate") =>
                \A i \in 1..Len(sent) :
                   /\ sent[i].userId = chatWs[last.conn].userId
                   /\ sent[i].userId # NoUser)
    /\ [][CallStep =>
            \A i \in 1..Len(sent') :
               sent'[i].event \in RelayedEvents =>
                  /\ sent'[i].userId = ws[last'.conn].userId
                  /\ sent'[i].userId # NoUser]_vars

\* A Host whose frame claims to come from u1 has had its answerCall
\* relayed, and the envelope names the Host.
C15_Witness ==
    /\ last.op = "message"
    /\ last.event = "answerCall"
    /\ last.fromUserId = "u1"
    /\ ws[last.conn].userId = "u2"
    /\ Len(sent) = 1
    /\ sent[1].event = "callAnswered"
    /\ sent[1].to # last.conn
    /\ sent[1].userId = "u2"

\* The step serves locationUpdate from a connection with a bound identity.
LocationStep ==
    /\ ChatStep
    /\ last'.event = "locationUpdate"
    /\ chatWs[last'.conn].userId # NoUser

\* The step ends a locationUpdate handler whose store call failed.
StoreFailedStep ==
    /\ last'.op = "done"
    /\ last'.event = "store failed"
    /\ last'.task.kind = "locationUpdate"

\* C16: a locationUpdate with lat and lng present sets the sender's
\* Location Record before the store is called, and when the store call
\* fails the record stays as set, the update goes once to every open
\* subscriber of the sender and to no one else, and no error envelope is
\* sent; a locationUpdate without lat or without lng changes no Location
\* Record, starts no store call and sends nothing.
C16_StoreFailureStillFansOut ==
    [][/\ LocationStep =>
          \A f \in LocationFrames :
             f.event = "locationUpdate" /\ ChatMessage(last'.conn, f) =>
                IF f.lat = "" \/ f.lng = ""
                THEN /\ UNCHANGED <<chatVars, storeVars>>
                     /\ sent' = <<>>
                ELSE userLocations' =
                       [userLocations EXCEPT ![chatWs[last'.conn].userId] =
                          [lat |-> f.lat, lng |-> f.lng]]
       /\ StoreFailedStep =>
          /\ UNCHANGED userLocations
          /\ \A d \in Conns :
                SentTo(sent', d) =
                  IF /\ d \in SetOf(locationSubscribers[last'.task.uid])
                     /\ chatWs[d].readyState = "OPEN"
                  THEN 1 ELSE 0
          /\ \A i \in 1..Len(sent') :
                /\ sent'[i].event = "locationUpdate"
                /\ sent'[i].userId = last'.task.uid
                /\ sent'[i].lat = last'.task.lat
                /\ sent'[i].lng = last'.task.lng]_vars

\* The frames of connection d that C17 follows: authenticate with a token
\* of u, subscribeToLocation of u2, and a locationUpdate.
AuthAs(u) == CHOOSE f \in ValidChatAuthFrames : f.token.id = u

SubscribeTo(u) == ChatFrame(TRUE, "subscribeToLocation", NoToken, u, "", "", "")

UpdateAt(lat, lng) == ChatFrame(TRUE, "locationUpdate", NoToken, NoUser, lat, lng, "")

OpenAs(c, id) == ws[c].readyState = "OPEN" /\ ws[c].userId = id

\* C18: the registry entry of an identity is that of the open connection
\* that authenticated as it last.  An entry whose connection is open and
\* bound to the identity leaves the registry only when a connection
\* authenticates as that identity and takes the entry, or in a step that
\* closes or terminates the entry's own connection; and an identity that
\* exactly one connection not yet closed is bound to, that connection
\* being open, has that connection as its entry.
C18_NewestEntryKept ==
    /\ [](\A id \in Users, c \in Conns :
             (/\ OpenAs(c, id)
              /\ \A d \in Conns \ {c} : ws[d].userId # id)
             => SocketsOf(onlineUsers, id) = {c})
    /\ [][\A e \in onlineUsers :
             (OpenAs(e.socket, e.key) /\ e \notin onlineUsers') =>
                \/ /\ last'.op = "message"
                   /\ last'.event = "authenticate"
                   /\ SocketsOf(onlineUsers', e.key) = {last'.conn}
                \/ ws'[e.socket].readyState # "OPEN"]_vars

\* C19: once the close handler of a connection has run, no entry of the
\* registry and none of the role index references the connection, whatever
\* authenticate events it sent while it was open.
C19_NoEntryAfterClose ==
    \A c \in Conns :
       ws[c].readyState = "CLOSED" =>
          /\ \A e \in onlineUsers : e.socket # c
          /\ \A e \in onlineCouriers : e.socket # c

\* The Rooms the store holds for the unordered pair (a, b).
RoomsOf(a, b) == {r \in rooms : {r.senderId, r.receiverId} = {a, b}}

\* C20: under every interleaving of the message handlers, the store holds
\* at most one Room for an unordered pair of identities.
C20_OneRoomPerPair ==
    \A a, b \in Users : Cardinality(RoomsOf(a, b)) <= 1

\* The locationUpdate handlers of identity id that are still suspended.
PendingUpdatesOf(id) == {t \in Pending("locationUpdate") : t.uid = id}

\* C21: location is most-recent-write-wins end to end: the fan-outs of an
\* identity's locationUpdate events reach the subscribers in the order the
\* events were sent, so once no locationUpdate handler of the identity is
\* suspended, the envelopes of its last fan-out (the last a subscriber has
\* received) carry the lat and lng of its Location Record.  Stated for a
\* handler whose connection holds the identity it held when the event came.
C21_LastEnvelopeIsRecord ==
    (/\ last.op = "done"
     /\ last.task.kind = "locationUpdate"
     /\ chatWs[last.conn].userId = last.task.uid
     /\ PendingUpdatesOf(last.task.uid) = {}) =>
       \A i \in 1..Len(sent) :
          /\ sent[i].lat = userLocations[sent[i].userId].lat
          /\ sent[i].lng = userLocations[sent[i].userId].lng

====
